---- MODULE Spec2Model ----
(***************************************************************************)
(* A model of the PDF question-answering service: the upload endpoint      *)
(* (api/main.py chat_build_index, ChatIngestor), the query endpoint        *)
(* (api/main.py chat_query) and the conversational chain                   *)
(* (ConversationalRAG).                                                    *)
(*                                                                         *)
(* Both endpoints are coroutines without an await, so one event loop runs  *)
(* each of them to completion.  The upload is modelled as one step.  The   *)
(* query is modelled with a step boundary at each language-model call, the *)
(* only places where it blocks: this admits every interleaving of the      *)
(* read-history, invoke-chain and append-history phases of two clients, a  *)
(* superset of what a single event loop schedules.                         *)
(*                                                                         *)
(* The language model, the PDF loader, the embedder and the vector index   *)
(* are libraries: their results are inputs drawn from small sets.          *)
(***************************************************************************)
EXTENDS Integers, Sequences, FiniteSets, TLC

VARIABLES
    SESSIONS,      \* session id -> reference of its transcript list
    heap,          \* list objects: reference -> sequence of turns
    pdfDir,        \* data/pdf: file name -> bytes
    vectorstores,  \* data/vectorstores: session id -> index directory
    issued,        \* number of session ids generated so far
    ingested,      \* per upload request, in order: what it was given and how it ended
    lastUpload,    \* the latest upload request and its response
    req,           \* per client: the locals of its query request
    answered       \* session id -> the (query, answer) pairs returned with success, in order

vars == <<SESSIONS, heap, pdfDir, vectorstores, issued, ingested, lastUpload,
          req, answered>>

(***************************************************************************)
(* Bounds and inputs                                                       *)
(***************************************************************************)
MaxUploads == 2
MaxQueries == 2

Clients == {"A", "B"}

None == "None"

\* File names a client may send, as character sequences.
FileNames ==
    { <<"a", ".", "p", "d", "f">>,
      <<"a", ".", "P", "D", "F">>,
      <<"a", ".", "p", "d", "f", "/">>,
      <<".", "p", "d", "f">>,
      <<"a", ".", "t", "x", "t">> }

\* Uploaded bytes: nothing, bytes that are no PDF, a PDF without text, two PDFs with text.
Payloads == {"empty", "garbage", "blank", "d1", "d2"}

\* What the environment can make fail during one upload.
Faults == {"none", "save", "persist"}

Queries == {"", "q1"}
RewriteOutputs == {"r1"}
AnswerOutputs == {"", "a1"}

(***************************************************************************)
(* Program constants                                                       *)
(***************************************************************************)
max_retries == 2
k == 4
timeout == None

NoAnswerGenerated == "no answer generated."

(***************************************************************************)
(* pathlib, as far as save_uploaded_files uses it                          *)
(***************************************************************************)
RECURSIVE Components(_, _, _)
\* The path components of the characters s: split at "/", empty and "." parts dropped.
Components(s, cur, acc) ==
    LET flush == IF cur = <<>> \/ cur = <<".">> THEN acc ELSE Append(acc, cur)
    IN  IF s = <<>> THEN flush
        ELSE IF Head(s) = "/" THEN Components(Tail(s), <<>>, flush)
        ELSE Components(Tail(s), Append(cur, Head(s)), acc)

\* Path(name).name
PathName(name) ==
    LET cs == Components(name, <<>>, <<>>)
    IN  IF cs = <<>> THEN <<>> ELSE cs[Len(cs)]

RECURSIVE RFind(_, _, _)
\* str.rfind(ch): the last position of ch in s at or before i, 0 when there is none.
RFind(s, ch, i) ==
    IF i = 0 THEN 0
    ELSE IF s[i] = ch THEN i
    ELSE RFind(s, ch, i - 1)

\* Path(name).suffix: from the last dot of the final component, unless that dot
\* is its first or its last character.
Suffix(name) ==
    LET nm == PathName(name)
        i  == RFind(nm, ".", Len(nm))
    IN  IF 1 < i /\ i < Len(nm) THEN SubSeq(nm, i, Len(nm)) ELSE <<>>

LowerChar(c) ==
    CASE c = "A" -> "a"
      [] c = "P" -> "p"
      [] c = "D" -> "d"
      [] c = "F" -> "f"
      [] OTHER   -> c

\* str.lower()
Lower(s) == [i \in 1..Len(s) |-> LowerChar(s[i])]

DotPdf == <<".", "p", "d", "f">>

\* The extension test without lower().
ExtensionOk_CaseSensitive(name) == Suffix(name) = DotPdf

\* ext = Path(name).suffix.lower(); ext != ".pdf" raises
ExtensionOk(name) == Lower(Suffix(name)) = DotPdf

(***************************************************************************)
(* The libraries                                                           *)
(***************************************************************************)
\* uf.read(): the number of bytes, as far as it matters (zero or not)
SizeOf(data) == IF data = "empty" THEN 0 ELSE 1

\* PyPDFLoader.load succeeds on a PDF
Parsable(data) == data \in {"blank", "d1", "d2"}

\* RecursiveCharacterTextSplitter.split_documents: the chunks of a document
Chunks(data) ==
    CASE data = "d1" -> <<"c1", "c2">>
      [] data = "d2" -> <<"c3">>
      [] OTHER        -> <<>>

\* generate_session_id: a timestamp and a random suffix, never the same twice
generate_session_id(n) == "session_" \o ToString(n)

\* One index directory, whatever the session.
IndexPath_Shared(session_id) == "vectorstores"

\* data/vectorstores/<session_id>
IndexPath(session_id) == session_id

(***************************************************************************)
(* ChatIngestor                                                            *)
(***************************************************************************)
\* save_uploaded_files: the upload directory afterwards, and whether it raised.
save_uploaded_files(name, data, fault) ==
    IF ~ExtensionOk(name)
    THEN [raised |-> "UnsupportedFormat", pdf |-> pdfDir, out |-> <<>>]
    ELSE LET out == PathName(name)
         IN  IF fault = "save"
             \* open(out, "wb") has truncated the file when write raises
             THEN [raised |-> "SaveFailure",
                   pdf |-> [f \in DOMAIN pdfDir \cup {out} |->
                               IF f = out THEN "empty" ELSE pdfDir[f]],
                   out |-> out]
             ELSE [raised |-> None,
                   pdf |-> [f \in DOMAIN pdfDir \cup {out} |->
                               IF f = out THEN data ELSE pdfDir[f]],
                   out |-> out]

\* built_retriver on the saved file: what it returns or raises, and the index
\* directory it has written (None: nothing).
built_retriver(pdf, out, fault) ==
    IF out \notin DOMAIN pdf
    THEN [retriever |-> None, raised |-> None, kind |-> "FileMissing", wrote |-> None, chunks |-> <<>>]
    ELSE IF SizeOf(pdf[out]) = 0
    THEN [retriever |-> None, raised |-> None, kind |-> "EmptyFile", wrote |-> None, chunks |-> <<>>]
    ELSE IF ~Parsable(pdf[out])
    THEN [retriever |-> None, raised |-> "LoadFailure", kind |-> "LoadFailure", wrote |-> None, chunks |-> <<>>]
    ELSE LET chunks == Chunks(pdf[out])
         IN  IF chunks = <<>>
             \* FAISS.from_documents raises on an empty list of chunks
             THEN [retriever |-> None, raised |-> "IndexBuildFailure",
                   kind |-> "IndexBuildFailure", wrote |-> None, chunks |-> <<>>]
             ELSE IF fault = "persist"
             \* save_local raised between its two files
             THEN [retriever |-> None, raised |-> "PersistFailure",
                   kind |-> "PersistFailure",
                   wrote |-> "partial", chunks |-> chunks]
             ELSE [retriever |-> "retriever", raised |-> None, kind |-> "ok",
                   wrote |-> "complete", chunks |-> chunks]

(***************************************************************************)
(* Helpers                                                                 *)
(***************************************************************************)
Put(f, key, v) == [x \in DOMAIN f \cup {key} |-> IF x = key THEN v ELSE f[x]]

Min(a, b) == IF a < b THEN a ELSE b

Range(s) == {s[i] : i \in 1..Len(s)}

(***************************************************************************)
(* POST /chat/upload_files                                                 *)
(***************************************************************************)
\* The handler returns success without the check of line 99.
Registers_NoNoneCheck(b) == b.raised = None

\* The handler reaches SESSIONS[ci.session_id] = []: built_retriver neither
\* raised nor returned None.
Registers(b) == b.raised = None /\ b.retriever # None

\* The success response, or "except Exception" turning every failure into a 500.
UploadStatus(registered) == IF registered THEN 200 ELSE 500

chat_build_index(name, data, fault) ==
    /\ issued < MaxUploads
    /\ \E sid \in {generate_session_id(issued + 1)},
          s \in {save_uploaded_files(name, data, fault)} :
        \E b \in {built_retriver(s.pdf, s.out, fault)} :
        \E reg \in {s.raised = None /\ Registers(b)} :
        \E kind \in {IF s.raised # None THEN s.raised ELSE b.kind} :
           /\ issued' = issued + 1
           /\ pdfDir' = s.pdf
           /\ vectorstores' =
                 IF s.raised = None /\ b.wrote # None
                 THEN Put(vectorstores, IndexPath(sid),
                          [state |-> b.wrote, chunks |-> b.chunks])
                 ELSE vectorstores
           /\ IF reg
              THEN /\ heap' = Append(heap, <<>>)
                   /\ SESSIONS' = Put(SESSIONS, sid, Len(heap) + 1)
                   /\ answered' = Put(answered, sid, <<>>)
              ELSE UNCHANGED <<heap, SESSIONS, answered>>
           /\ ingested' = Append(ingested,
                 [session_id |-> sid, data |-> IF kind = "ok" THEN data ELSE None,
                  kind |-> kind, status |-> UploadStatus(reg)])
           /\ lastUpload' = [name |-> name, session_id |-> sid, kind |-> kind,
                             status |-> UploadStatus(reg)]
    /\ UNCHANGED req

(***************************************************************************)
(* ConversationalRAG                                                       *)
(***************************************************************************)
RECURSIVE Arrangements(_, _)
\* The sequences of at most m distinct elements of S.
Arrangements(S, m) ==
    IF m = 0 THEN {<<>>}
    ELSE {<<>>} \cup UNION {{<<x>> \o t : t \in Arrangements(S \ {x}, m - 1)} : x \in S}

\* What vector_store.as_retriever(k) may return for a query: up to k chunks of
\* the index, in an order the similarity decides.
Retrievals(chunks) == Arrangements(Range(chunks), Min(k, Len(chunks)))

RECURSIVE _format_docs(_)
\* "\n\n".join(page_content of each doc)
_format_docs(found) ==
    IF found = <<>> THEN <<>>
    ELSE IF Len(found) = 1 THEN <<found[1]>>
    ELSE <<found[1], "\n\n">> \o _format_docs(Tail(found))

\* One stage call of the chain, with what it was given.
Call(stage, input, history, context) ==
    [stage |-> stage, input |-> input, chat_history |-> history, context |-> context]

\* question_rewriter is given the payload's input and chat_history.
RewriteCall(r) == Call("rewrite", r.query, r.chat_history, <<>>)

\* The retriever is given the rewriter's output.
RetrieveCall(r, rewritten) == Call("retrieve", rewritten, <<>>, <<>>)

\* _format_docs is given the retriever's output.
FormatCall(r, found) == Call("format", None, <<>>, found)

\* The answer stage given the rewritten question in place of the payload's input.
AnswerCall_Rewritten(r) == Call("answer", r.rewritten, r.chat_history, r.context)

\* qa_prompt | llm is given the context, the payload's input and chat_history.
AnswerCall(r) == Call("answer", r.query, r.chat_history, r.context)

\* invoke: an empty answer becomes the sentinel.
invoke_result(raw) == IF raw = "" THEN NoAnswerGenerated ELSE raw

(***************************************************************************)
(* POST /chat/query                                                        *)
(***************************************************************************)
Idle ==
    [pc |-> "idle", session_id |-> None, query |-> None, loaded |-> None,
     simple |-> 0, chat_history |-> <<>>, rewritten |-> None, docs |-> <<>>,
     context |-> <<>>, answer |-> None, attempts |-> 0, llm_calls |-> 0,
     status |-> 0, kind |-> None, trace |-> <<>>]

InFlight == {"rewrite", "answer", "append"}

\* The session test without the membership in SESSIONS.
SessionValid_NonEmptyOnly(session_id) == session_id # ""

\* not (not session_id or session_id not in SESSIONS)
SessionValid(session_id) == session_id # "" /\ session_id \in DOMAIN SESSIONS

\* simple = list(SESSIONS.get(session_id, [])): a copy of the list.
SESSIONS_get_Copy(session_id) ==
    [ref  |-> Len(heap) + 1,
     heap |-> Append(heap, IF session_id \in DOMAIN SESSIONS
                           THEN heap[SESSIONS[session_id]] ELSE <<>>)]

\* simple = SESSIONS.get(session_id, []): the stored list itself, or a new one.
SESSIONS_get(session_id) ==
    IF session_id \in DOMAIN SESSIONS
    THEN [ref |-> SESSIONS[session_id], heap |-> heap]
    ELSE [ref |-> Len(heap) + 1, heap |-> Append(heap, <<>>)]

RECURSIVE lc_history(_)
\* The transcript as messages: user -> HumanMessage, assistant -> AIMessage,
\* any other role dropped.
lc_history(simple) ==
    IF simple = <<>> THEN <<>>
    ELSE LET m == Head(simple)
             rest == lc_history(Tail(simple))
         IN  IF m.role = "user"
             THEN <<[type |-> "human", content |-> m.content]>> \o rest
             ELSE IF m.role = "assistant"
             THEN <<[type |-> "ai", content |-> m.content]>> \o rest
             ELSE rest

\* The two appends, with the turns in the other order.
AppendTurns_Swapped(simple, query, answer) ==
    Append(Append(simple, [role |-> "assistant", content |-> answer]),
           [role |-> "user", content |-> query])

\* simple.append(user turn); simple.append(assistant turn)
AppendTurns(simple, query, answer) ==
    Append(Append(simple, [role |-> "user", content |-> query]),
           [role |-> "assistant", content |-> answer])

\* The request has ended in an HTTPException; its other locals are gone.
Failed(r, status, kind) ==
    [Idle EXCEPT !.pc = "failed", !.session_id = r.session_id,
                 !.query = r.query, !.loaded = r.loaded, !.llm_calls = r.llm_calls,
                 !.status = status, !.kind = kind]

\* The request has returned ChatResponse(answer); its other locals are gone.
Done(r) ==
    [Idle EXCEPT !.pc = "done", !.session_id = r.session_id, !.query = r.query,
                 !.loaded = r.loaded, !.chat_history = r.chat_history,
                 !.answer = r.answer, !.llm_calls = r.llm_calls, !.status = 200]

RECURSIVE Sum(_, _)
Sum(f, S) == IF S = {} THEN 0 ELSE LET x == CHOOSE y \in S : TRUE IN f[x] + Sum(f, S \ {x})

\* The queries that passed validation so far and have not failed: the ones
\* answered, and the ones under way.
Accepted ==
    Sum([s \in DOMAIN answered |-> Len(answered[s])], DOMAIN answered)
    + Cardinality({c \in Clients : req[c].pc \in InFlight})

\* Validation, ConversationalRAG(...), load_retriever_from_faiss and the read of
\* the history (lines 124-148).
chat_query(c, session_id, query) ==
    /\ req[c].pc \notin InFlight
    /\ LET r0 == [Idle EXCEPT !.session_id = session_id, !.query = query]
           path == IndexPath(session_id)
       IN  IF ~SessionValid(session_id) \/ query = ""
           THEN /\ req' = [req EXCEPT ![c] = Failed(r0, 400, "InvalidRequest")]
                /\ UNCHANGED heap
           ELSE IF path \notin DOMAIN vectorstores
           THEN /\ req' = [req EXCEPT ![c] = Failed(r0, 500, "IndexNotFound")]
                /\ UNCHANGED heap
           ELSE IF vectorstores[path].state # "complete"
           THEN /\ req' = [req EXCEPT ![c] =
                              Failed([r0 EXCEPT !.loaded = path], 500, "LoadFailure")]
                /\ UNCHANGED heap
           ELSE \E g \in {SESSIONS_get(session_id)} :
                    /\ Accepted < MaxQueries
                    /\ heap' = g.heap
                    /\ req' = [req EXCEPT ![c] =
                          [r0 EXCEPT !.pc = "rewrite", !.loaded = path,
                                     !.simple = g.ref,
                                     !.chat_history = lc_history(g.heap[g.ref])]]
    /\ UNCHANGED <<SESSIONS, pdfDir, vectorstores, issued, ingested, lastUpload, answered>>

\* The rewriting call returns; the retriever and _format_docs run on its output.
llm_rewrite(c, out, found, retrieved) ==
    /\ req[c].pc = "rewrite"
    /\ LET r == req[c]
           t3 == r.trace \o <<RewriteCall(r), RetrieveCall(r, out), FormatCall(r, found)>>
       IN  IF ~retrieved
           THEN req' = [req EXCEPT ![c] =
                           Failed([r EXCEPT !.llm_calls = @ + 1], 500, "RetrievalFailure")]
           ELSE req' = [req EXCEPT ![c] =
                           [r EXCEPT !.pc = "answer", !.rewritten = out, !.docs = found,
                                     !.context = _format_docs(found),
                                     !.attempts = 0, !.llm_calls = @ + 1, !.trace = t3]]
    /\ UNCHANGED <<SESSIONS, heap, pdfDir, vectorstores, issued, ingested, lastUpload,
                   answered>>

\* The answering call returns; invoke returns its answer.
llm_answer(c, out) ==
    /\ req[c].pc = "answer"
    /\ LET r == req[c]
       IN  req' = [req EXCEPT ![c] =
                      [r EXCEPT !.pc = "append", !.answer = invoke_result(out),
                                !.attempts = 0, !.llm_calls = @ + 1,
                                !.trace = Append(r.trace, AnswerCall(r))]]
    /\ UNCHANGED <<SESSIONS, heap, pdfDir, vectorstores, issued, ingested, lastUpload,
                   answered>>

\* A language-model call fails: the client retries a retryable error up to
\* max_retries times, then the error leaves through "except Exception" as a 500.
llm_error(c, retryable) ==
    /\ req[c].pc \in {"rewrite", "answer"}
    /\ LET r == req[c]
       IN  IF retryable /\ r.attempts < max_retries
           THEN req' = [req EXCEPT ![c].attempts = r.attempts + 1]
           ELSE req' = [req EXCEPT ![c] =
                           Failed([r EXCEPT !.llm_calls = @ + 1], 500,
                                  IF r.pc = "rewrite" THEN "RewriteFailure"
                                  ELSE "GenerationFailure")]
    /\ UNCHANGED <<SESSIONS, heap, pdfDir, vectorstores, issued, ingested, lastUpload,
                   answered>>

\* The update of the history and the response (lines 153-157).
append_history(c) ==
    /\ req[c].pc = "append"
    /\ LET r == req[c]
       IN  /\ heap' = [heap EXCEPT ![r.simple] = AppendTurns(@, r.query, r.answer)]
           /\ SESSIONS' = Put(SESSIONS, r.session_id, r.simple)
           /\ req' = [req EXCEPT ![c] = Done(r)]
           /\ answered' = [answered EXCEPT ![r.session_id] =
                              Append(@, [query |-> r.query, answer |-> r.answer])]
    /\ UNCHANGED <<pdfDir, vectorstores, issued, ingested, lastUpload>>

(***************************************************************************)
(* The service                                                             *)
(***************************************************************************)
SessionIds == {generate_session_id(n) : n \in 1..MaxUploads}

\* Session ids a client may send: none, a made-up one, and every id the
\* service can generate, returned to a client or not.
SessionIdInputs == {"", "session_x"} \cup SessionIds

\* What the retriever of c's request may return.
Retrieved(c) ==
    IF req[c].pc = "rewrite" THEN Retrievals(vectorstores[req[c].loaded].chunks) ELSE {}

Init ==
    /\ SESSIONS = <<>>
    /\ heap = <<>>
    /\ pdfDir = <<>>
    /\ vectorstores = <<>>
    /\ issued = 0
    /\ ingested = <<>>
    /\ lastUpload = [name |-> <<>>, session_id |-> None, kind |-> None, status |-> 0]
    /\ req = [c \in Clients |-> Idle]
    /\ answered = <<>>

\* The first chunks of the index of c's request, in the order of the index.
TopChunks(c) ==
    IF req[c].pc = "rewrite"
    THEN LET chunks == vectorstores[req[c].loaded].chunks
         IN  {SubSeq(chunks, 1, Min(k, Len(chunks)))}
    ELSE {}

\* The service with every upload a client may send, and one client that asks
\* and gets an answer each time.
NextIngest ==
    \/ \E name \in FileNames, data \in Payloads \ {"d2"}, fault \in Faults :
          chat_build_index(name, data, fault)
    \/ \E session_id \in SessionIdInputs, query \in Queries :
          chat_query("A", session_id, query)
    \/ \E found \in TopChunks("A") : llm_rewrite("A", "r1", found, TRUE)
    \/ llm_answer("A", "a1")
    \/ append_history("A")

SpecIngest == Init /\ [][NextIngest]_vars

\* The service with two clients that ask, uploads that succeed, and language
\* model calls that return or fail at once.
NextChat ==
    \/ \E data \in {"d1", "d2"} :
          chat_build_index(<<"a", ".", "p", "d", "f">>, data, "none")
    \/ \E c \in Clients, session_id \in SessionIds :
          chat_query(c, session_id, "q1")
    \/ \E c \in Clients, out \in RewriteOutputs, retrieved \in BOOLEAN :
          \E found \in Retrieved(c) : llm_rewrite(c, out, found, retrieved)
    \/ \E c \in Clients, out \in AnswerOutputs : llm_answer(c, out)
    \/ \E c \in Clients : llm_error(c, FALSE)
    \/ \E c \in Clients : append_history(c)

SpecChat == Init /\ [][NextChat]_vars

\* The service with one document, two clients, and language-model calls that
\* return, fail for good, or fail in a way the client retries.
NextLive ==
    \/ chat_build_index(<<"a", ".", "p", "d", "f">>, "d1", "none")
    \/ \E c \in Clients, session_id \in SessionIds :
          chat_query(c, session_id, "q1")
    \/ \E c \in Clients : \E found \in TopChunks(c) : llm_rewrite(c, "r1", found, TRUE)
    \/ \E c \in Clients : llm_answer(c, "a1")
    \/ \E c \in Clients, retryable \in BOOLEAN : llm_error(c, retryable)
    \/ \E c \in Clients : append_history(c)

\* The handler's own steps always run.  A language-model call ends by itself
\* only when the client has a timeout: the timeout is an error it retries.
Fairness ==
    /\ \A c \in Clients : WF_vars(append_history(c))
    /\ \A c \in Clients : WF_vars(timeout # None /\ llm_error(c, TRUE))

LiveSpec == Init /\ [][NextLive]_vars /\ Fairness

(***************************************************************************)
(* What the properties speak of                                            *)
(***************************************************************************)
\* The transcript of a registered session.
Transcript(s) == heap[SESSIONS[s]]

IsPrefix(a, b) == Len(a) <= Len(b) /\ SubSeq(b, 1, Len(a)) = a

\* The session ids that a successful upload has returned.
Returned == {ingested[i].session_id : i \in {j \in 1..Len(ingested) : ingested[j].status = 200}}

\* The upload request that generated the session id s.
UploadOf(s) == ingested[CHOOSE i \in 1..Len(ingested) : ingested[i].session_id = s]

RECURSIVE Turns(_)
\* The turns of a sequence of (query, answer) pairs.
Turns(pairs) ==
    IF pairs = <<>> THEN <<>>
    ELSE <<[role |-> "user", content |-> Head(pairs).query],
           [role |-> "assistant", content |-> Head(pairs).answer]>> \o Turns(Tail(pairs))

Quiet == \A c \in Clients : req[c].pc \notin InFlight

StageOrder == <<"rewrite", "retrieve", "format", "answer">>

\* The name ends in ".pdf", in any letter case.
EndsInDotPdf(name) ==
    Len(name) >= 4 /\ Lower(SubSeq(name, Len(name) - 3, Len(name))) = DotPdf

\* The final path component of the name is at least one character followed by
\* ".pdf", in any letter case.
NamesPdfFile(name) ==
    LET nm == PathName(name)
    IN  Len(nm) >= 5 /\ Lower(SubSeq(nm, Len(nm) - 3, Len(nm))) = DotPdf

\* Every query under way works on the chunks of the document its session
\* ingested and on a history read from its session's transcript.
OwnIndexAndTranscript ==
    \A c \in Clients :
        req[c].pc \in InFlight =>
            LET s == req[c].session_id
            IN  /\ s \in Returned
                /\ Range(req[c].docs) \subseteq Range(Chunks(UploadOf(s).data))
                /\ vectorstores[req[c].loaded].chunks = Chunks(UploadOf(s).data)
                /\ IsPrefix(req[c].chat_history, lc_history(Transcript(s)))

\* No session id is in the store, and no request under way or answered, unless
\* a successful upload returned the id; a request with another id was rejected
\* before any index was loaded or any language-model call made.
OnlyReturnedSessions ==
    /\ DOMAIN SESSIONS \subseteq Returned
    /\ \A c \in Clients :
          (req[c].pc # "idle" /\ req[c].session_id \notin Returned) =>
              /\ req[c].pc = "failed"
              /\ req[c].status = 400
              /\ req[c].loaded = None
              /\ req[c].llm_calls = 0

\* Each transcript is the turns of the answered queries, none with an empty text.
TranscriptsAreAnswers ==
    \A s \in DOMAIN SESSIONS :
        /\ Transcript(s) = Turns(answered[s])
        /\ \A i \in 1..Len(Transcript(s)) : Transcript(s)[i].content # ""

\* The fixed answer the specification gives to a query that retrieves nothing.
NoRelevantInformation == "no relevant information found"

ClientErrorKinds == {"UnsupportedFormat", "EmptyFile", "InvalidRequest", "IndexNotFound"}
ServerErrorKinds == {"LoadFailure", "RewriteFailure", "GenerationFailure"}

(***************************************************************************)
(* C1: a query whose retrieval returns no chunk is answered with the fixed *)
(* "no relevant information found" text, and the answer stage of the       *)
(* language model is not invoked for it.                                   *)
(***************************************************************************)
C1_EmptyRetrievalShortCircuits ==
    \A c \in Clients :
        (req[c].pc = "append" /\ req[c].docs = <<>>) =>
            /\ req[c].answer = NoRelevantInformation
            /\ \A i \in 1..Len(req[c].trace) : req[c].trace[i].stage # "answer"

(***************************************************************************)
(* C2: an upload that fails at any step ends in an error, and its session  *)
(* id is never accepted by the query endpoint; a registered session has a  *)
(* completely persisted index.                                             *)
(***************************************************************************)
C2_FailedIngestionRegistersNothing ==
    /\ \A i \in 1..Len(ingested) :
          ingested[i].kind # "ok" =>
              /\ ingested[i].status >= 400
              /\ ingested[i].session_id \notin DOMAIN SESSIONS
              /\ \A c \in Clients :
                    (req[c].pc # "idle" /\ req[c].session_id = ingested[i].session_id)
                        => (req[c].pc = "failed" /\ req[c].kind = "InvalidRequest")
    /\ \A s \in DOMAIN SESSIONS :
          /\ IndexPath(s) \in DOMAIN vectorstores
          /\ vectorstores[IndexPath(s)].state = "complete"

\* An upload failed while persisting, left a partial index directory, and a
\* query with its session id was rejected.
C2_Witness ==
    \E i \in 1..Len(ingested) :
        /\ ingested[i].kind = "PersistFailure"
        /\ ingested[i].session_id \in DOMAIN vectorstores
        /\ req["A"].pc = "failed"
        /\ req["A"].session_id = ingested[i].session_id
        /\ req["A"].query = "q1"

(***************************************************************************)
(* C3: when queries on one session overlap, no update of the transcript is *)
(* lost: once all have completed, the transcript holds the user turn and   *)
(* the assistant turn of every query that returned an answer.              *)
(***************************************************************************)
C3_NoLostUpdate ==
    Quiet =>
        \A s \in DOMAIN SESSIONS :
            /\ Len(Transcript(s)) >= 2 * Len(answered[s])
            /\ \A i \in 1..Len(answered[s]) :
                  \E j \in 1..(Len(Transcript(s)) - 1) :
                      /\ Transcript(s)[j] =
                            [role |-> "user", content |-> answered[s][i].query]
                      /\ Transcript(s)[j + 1] =
                            [role |-> "assistant", content |-> answered[s][i].answer]

\* Two queries on one session that both read the empty history, so that they
\* overlapped, have both returned.
C3_Witness ==
    /\ req["A"].pc = "done" /\ req["B"].pc = "done"
    /\ req["A"].session_id = req["B"].session_id
    /\ req["A"].chat_history = <<>> /\ req["B"].chat_history = <<>>
    /\ Len(Transcript(req["A"].session_id)) = 4

(***************************************************************************)
(* C4: the stages run in the order rewrite, retrieve, format, answer; the  *)
(* rewrite stage is given the user's query and the history, the retrieve   *)
(* stage only the rewritten query, the format stage the retrieved chunks,  *)
(* and the answer stage the user's query (not the rewritten one), the      *)
(* formatted context and the history.                                      *)
(***************************************************************************)
C4_StageOrderAndInputs ==
    \A c \in Clients :
        LET r == req[c]
            t == r.trace
        IN  /\ Len(t) <= Len(StageOrder)
            /\ \A i \in 1..Len(t) : t[i].stage = StageOrder[i]
            /\ r.pc = "answer" => Len(t) = 3
            /\ r.pc = "append" => Len(t) = 4
            /\ Len(t) >= 1 => t[1] = Call("rewrite", r.query, r.chat_history, <<>>)
            /\ Len(t) >= 2 => t[2] = Call("retrieve", r.rewritten, <<>>, <<>>)
            /\ Len(t) >= 3 => t[3] = Call("format", None, <<>>, r.docs)
            /\ Len(t) >= 4 =>
                  t[4] = Call("answer", r.query, r.chat_history, _format_docs(r.docs))

\* A follow-up query, rewritten to a different text, with two chunks
\* retrieved, has been answered.
C4_Witness ==
    \E c \in Clients :
        /\ req[c].pc = "append"
        /\ req[c].chat_history # <<>>
        /\ req[c].rewritten # req[c].query
        /\ Len(req[c].docs) = 2

(***************************************************************************)
(* C5: every failure kind is reported in its status class: a non-PDF       *)
(* upload, an empty upload, an invalid request and a missing index as 4xx; *)
(* a load, rewrite or generation failure as 5xx.                           *)
(***************************************************************************)
C5_StatusClassOfEachFailure ==
    /\ lastUpload.kind \in ClientErrorKinds =>
          (400 <= lastUpload.status /\ lastUpload.status <= 499)
    /\ lastUpload.kind \in ServerErrorKinds =>
          (500 <= lastUpload.status /\ lastUpload.status <= 599)
    /\ \A c \in Clients :
          /\ req[c].kind \in ClientErrorKinds =>
                (400 <= req[c].status /\ req[c].status <= 499)
          /\ req[c].kind \in ServerErrorKinds =>
                (500 <= req[c].status /\ req[c].status <= 599)

(***************************************************************************)
(* C6, as first stated: an upload whose file name does not end in ".pdf"   *)
(* (in any letter case) fails as an unsupported format with nothing        *)
(* written to the upload directory or the index directory, and an upload   *)
(* whose name ends in ".pdf" passes the extension test.                    *)
(***************************************************************************)
C6_NameEndingDecides ==
    [][lastUpload' # lastUpload =>
          IF EndsInDotPdf(lastUpload'.name)
          THEN lastUpload'.kind # "UnsupportedFormat"
          ELSE /\ lastUpload'.kind = "UnsupportedFormat"
               /\ pdfDir' = pdfDir
               /\ vectorstores' = vectorstores]_vars

(***************************************************************************)
(* C6, amended: an upload fails as an unsupported format, with nothing     *)
(* written to the upload directory or the index directory, exactly when    *)
(* the final path component of its file name is not at least one character *)
(* followed by ".pdf" (in any letter case); any other name passes the      *)
(* extension test.                                                         *)
(***************************************************************************)
C6_FinalComponentDecides ==
    [][lastUpload' # lastUpload =>
          IF NamesPdfFile(lastUpload'.name)
          THEN lastUpload'.kind # "UnsupportedFormat"
          ELSE /\ lastUpload'.kind = "UnsupportedFormat"
               /\ lastUpload'.status >= 400
               /\ pdfDir' = pdfDir
               /\ vectorstores' = vectorstores]_vars

\* After an upload named in upper case was saved, an upload of a text file
\* has been refused.
C6_Witness ==
    /\ lastUpload.name = <<"a", ".", "t", "x", "t">>
    /\ lastUpload.kind = "UnsupportedFormat"
    /\ DOMAIN pdfDir = {<<"a", ".", "P", "D", "F">>}

(***************************************************************************)
(* C7: a query whose session id is empty or was never returned by a        *)
(* successful upload is rejected as an invalid request (400), loads no     *)
(* index, invokes no language model, and leaves the session store as it    *)
(* was, with no entry for that id.                                         *)
(***************************************************************************)
C7_UnknownSessionRejected ==
    [][/\ OnlyReturnedSessions'
       /\ \A c \in Clients :
             (req'[c] # req[c] /\ req'[c].pc = "failed" /\ req'[c].kind = "InvalidRequest")
                 => (SESSIONS' = SESSIONS /\ heap' = heap)]_vars

\* A query that names the partial index directory of a failed upload has been
\* rejected.
C7_Witness ==
    /\ req["A"].pc = "failed"
    /\ req["A"].status = 400
    /\ req["A"].query = "q1"
    /\ req["A"].session_id \in DOMAIN vectorstores
    /\ req["A"].session_id \notin Returned

(***************************************************************************)
(* C8: every query returns an answer or a failure: a language-model call   *)
(* is retried at most max_retries times and cannot keep its caller waiting *)
(* for ever.                                                               *)
(***************************************************************************)
C8_EveryQueryReturns ==
    /\ [](\A c \in Clients : req[c].attempts <= max_retries)
    /\ \A c \in Clients :
          (req[c].pc \in {"rewrite", "answer"}) ~> (req[c].pc \in {"done", "failed"})

(***************************************************************************)
(* C9: a query on a session retrieves only chunks of the document that     *)
(* session ingested, from that session's index, reads only that session's  *)
(* transcript, and changes only that session's transcript; no query        *)
(* changes an index.                                                       *)
(***************************************************************************)
C9_SessionIsolation ==
    [][/\ OwnIndexAndTranscript'
       /\ \A s \in DOMAIN SESSIONS :
             /\ Transcript(s)' # Transcript(s) =>
                   \E c \in Clients :
                       /\ req[c].pc = "append" /\ req[c].session_id = s
                       /\ req'[c].pc = "done"
             /\ vectorstores'[IndexPath(s)] = vectorstores[IndexPath(s)]]_vars

\* With two sessions over different documents, one of them with a transcript,
\* a query on the other has retrieved chunks.
C9_Witness ==
    \E c \in Clients, s \in DOMAIN SESSIONS :
        /\ req[c].pc = "append"
        /\ req[c].docs # <<>>
        /\ s # req[c].session_id
        /\ UploadOf(s).data # UploadOf(req[c].session_id).data
        /\ Transcript(s) # <<>>

(***************************************************************************)
(* C10: the transcript of a session is empty when the session is           *)
(* registered, and is always the user turn and the assistant turn of each  *)
(* query on it that returned with success, in the order they returned,     *)
(* the sentinel standing for an empty answer; a failed query adds no turn, *)
(* and no turn is removed or reordered.                                    *)
(***************************************************************************)
C10_TranscriptIsTheAnsweredQueries ==
    [][/\ TranscriptsAreAnswers'
       /\ \A s \in DOMAIN SESSIONS' : s \notin DOMAIN SESSIONS => heap'[SESSIONS'[s]] = <<>>
       /\ \A s \in DOMAIN SESSIONS :
             /\ s \in DOMAIN SESSIONS'
             /\ IsPrefix(Transcript(s), Transcript(s)')
             /\ Transcript(s)' # Transcript(s) =>
                   \E c \in Clients :
                       /\ req'[c].pc = "done" /\ req[c].pc = "append"
                       /\ Transcript(s)' = Transcript(s) \o
                             <<[role |-> "user", content |-> req'[c].query],
                               [role |-> "assistant", content |-> req'[c].answer]>>
       /\ \A c \in Clients :
             (req'[c].pc = "failed" /\ req[c].pc # "failed") => heap' = heap]_vars

\* A session holds two answered queries, one of them with the sentinel, and a
\* further query on it has failed.
C10_Witness ==
    \E s \in DOMAIN SESSIONS, c \in Clients :
        /\ Len(Transcript(s)) = 4
        /\ Transcript(s)[2].content = NoAnswerGenerated
        /\ Transcript(s)[4].content # NoAnswerGenerated
        /\ req[c].pc = "failed" /\ req[c].session_id = s
        /\ req[c].kind = "GenerationFailure"

====
